---- MODULE Spec2Model ----
(***************************************************************************)
(* Model of the GitHub repository metadata generator (src/index.js).       *)
(*                                                                         *)
(* main() is one sequential async function: every await (a hosting-API     *)
(* call, a text-generation call, an interactive prompt) is one step of     *)
(* the model, together with the synchronous code that follows it up to     *)
(* the next await.  The outcome of each await is an input of the step.     *)
(* `log` records every external interaction in program order.              *)
(*                                                                         *)
(* Text is a sequence of one-character strings, so that trim, split,       *)
(* lower-casing and whitespace replacement are computed, not assumed.      *)
(* Optional values (null / undefined / absent property) are None, and a    *)
(* present value v is Some(v).                                             *)
(***************************************************************************)
EXTENDS Naturals, Sequences, FiniteSets

VARIABLES
    pc,               \* position of main() / of the function under test
    exitCode,         \* None while running, Some(code) once the process ended
    githubToken,      \* main: `githubToken` (None when the environment has none)
    openaiApiKey,     \* main: `openaiApiKey` (None when the environment has none)
    log,              \* every API call, generation call and prompt, in order
    page,             \* main: `page` of the repository-list loop
    allRepos,         \* main: `allRepos`
    selectedRepo,     \* main: `selectedRepo` (None before the search prompt)
    hostReadme,       \* hosting platform: the repository's README (hash) or None
    missing,          \* main: `missing`
    hasReadme,        \* main: `hasReadme`
    fieldsToGenerate, \* main: `fieldsToGenerate`
    context,          \* getRepositoryContext: `context`
    cfgIdx,           \* getRepositoryContext: position of the configFiles loop
    generatedData,    \* main: `generatedData`
    existingReadme    \* main: `existingReadme` of the apply step

vars == <<pc, exitCode, githubToken, openaiApiKey, log, page, allRepos, selectedRepo, hostReadme, missing,
          hasReadme, fieldsToGenerate, context, cfgIdx, generatedData,
          existingReadme>>

----------------------------------------------------------------------------
(* Optional values *)

None == <<>>
Some(v) == <<v>>
IsSome(o) == o # <<>>
Val(o) == o[1]

----------------------------------------------------------------------------
(* Text: sequences of characters *)

\* White space as String.prototype.trim and the regular expression \s see it.
WhiteSpace == {" ", "\t", "\n"}

IsSpace(c) == c \in WhiteSpace

\* String.prototype.toLowerCase on one character of the model's alphabet.
LowerChar(c) ==
    CASE c = "A" -> "a"
      [] c = "B" -> "b"
      [] c = "N" -> "n"
      [] c = "W" -> "w"
      [] c = "Z" -> "z"
      [] OTHER -> c

UpperChars == {"A", "B", "N", "W", "Z"}

ToLowerCase(s) == [i \in 1..Len(s) |-> LowerChar(s[i])]

RECURSIVE TrimStart(_)
TrimStart(s) ==
    IF s = <<>> THEN <<>>
    ELSE IF IsSpace(Head(s)) THEN TrimStart(Tail(s)) ELSE s

RECURSIVE TrimEnd(_)
TrimEnd(s) ==
    IF s = <<>> THEN <<>>
    ELSE IF IsSpace(s[Len(s)]) THEN TrimEnd(SubSeq(s, 1, Len(s) - 1)) ELSE s

\* String.prototype.trim
Trim(s) == TrimEnd(TrimStart(s))

\* String.prototype.substring(0, n)
Substring0(s, n) == SubSeq(s, 1, IF Len(s) < n THEN Len(s) ELSE n)

\* Array.prototype.slice(0, n)
Slice0(a, n) == SubSeq(a, 1, IF Len(a) < n THEN Len(a) ELSE n)

\* The position of the first character of s that is in the set chars, or 0.
FirstIn(s, chars) ==
    IF \E i \in DOMAIN s : s[i] \in chars
    THEN CHOOSE i \in DOMAIN s :
           s[i] \in chars /\ \A j \in 1..(i - 1) : s[j] \notin chars
    ELSE 0

\* s.replace(/\s+/g, "-"): every maximal run of white space becomes one
\* hyphen; the scan resumes after the run it replaced.
RECURSIVE ReplaceSpaceRuns(_)
ReplaceSpaceRuns(s) ==
    LET at == FirstIn(s, WhiteSpace) IN
    IF at = 0 THEN s
    ELSE SubSeq(s, 1, at - 1) \o <<"-">>
           \o ReplaceSpaceRuns(TrimStart(SubSeq(s, at + 1, Len(s))))

\* s.split(","): the pieces between commas; "" splits into one empty piece.
RECURSIVE SplitComma(_)
SplitComma(s) ==
    LET at == FirstIn(s, {","}) IN
    IF at = 0 THEN <<s>>
    ELSE <<SubSeq(s, 1, at - 1)>> \o SplitComma(SubSeq(s, at + 1, Len(s)))

----------------------------------------------------------------------------
(* generateTopics: post-processing of the completion text *)

MaxTopicLen == 50
MaxTopics == 10
MaxDescriptionLen == 350

\* .map((t) => t.trim().toLowerCase().replace(/\s+/g, "-"))
NormalizeTopic(t) == ReplaceSpaceRuns(ToLowerCase(Trim(t)))

\* .filter((t) => t.length > 0 && t.length <= 50)
KeepTopicBelowMax(t) == Len(t) > 0 /\ Len(t) < MaxTopicLen
KeepTopic(t) == Len(t) > 0 /\ Len(t) <= MaxTopicLen

TopicsOfText(content) ==
    LET topicsText == Trim(content)
        mapped == [i \in 1..Len(SplitComma(topicsText)) |->
                      NormalizeTopic(SplitComma(topicsText)[i])]
    IN Slice0(SelectSeq(mapped, KeepTopic), MaxTopics)

----------------------------------------------------------------------------
(* generateDescription, generateWebsite, generateReadme: post-processing *)

\* response.choices[0].message.content.trim().substring(0, 350)
DescriptionOfText(content) == Substring0(Trim(content), MaxDescriptionLen)

\* response.choices[0].message.content.trim()
WebsiteOfText(content) == Trim(content)

ReadmeOfText(content) == Trim(content)

----------------------------------------------------------------------------
(* Repositories of the hosting platform *)

PerPage == 100

\* A repository as the hosting platform holds it.  The list endpoint returns
\* the summary fields; hostReadme is the platform's README state (its content
\* hash), which the program can learn only through repos.getReadme.
MakeRepo(name, description, homepage, topics, language, readme) ==
    [name |-> name, description |-> description, homepage |-> homepage,
     topics |-> topics, language |-> language, private |-> FALSE,
     default_branch |-> "main", hostReadme |-> readme]

BareRepo(name) == MakeRepo(name, None, None, None, None, None)

FullRepo(name) ==
    MakeRepo(name, Some(<<"X">>), Some(<<"h">>), Some(<< <<"a">> >>),
             Some(<<"J", "S">>), Some("sha1"))

RepoOfKind(kind, name) == IF kind = "bare" THEN BareRepo(name) ELSE FullRepo(name)

\* The i-th repository of page p is named by its position in the whole list.
PageOf(p, shape) ==
    [i \in 1..Len(shape) |-> RepoOfKind(shape[i], (p - 1) * PerPage + i)]

----------------------------------------------------------------------------
(* Process exit *)

\* process.exit(code)
\* if (githubToken), if (generatedData.description), ...: a string is truthy
\* when it is present and not empty.
TruthyText(o) == IsSome(o) /\ Val(o) # <<>>

Exit(code) == pc' = "exited" /\ exitCode' = Some(code)

\* main() returned: the event loop drains and the process ends with code 0.
Return == pc' = "done" /\ exitCode' = Some(0)

\* main().catch((error) => { ...; process.exit(1); })
MainCatchExitsZero == Exit(0)
MainCatch == Exit(1)

L(op, res, arg) == [op |-> op, res |-> res, arg |-> arg]

----------------------------------------------------------------------------
(* main: identity check and repository list *)

MaxPages == 2

\* The one secret a user types.
Secret == <<"s">>

\* process.env.GITHUB_TOKEN, process.env.OPENAI_API_KEY: absent, empty or set.
EnvValues == {None, Some(<<>>), Some(Secret)}

\* if (openaiApiKey) { console.log(...) } else { await password(...) }
AfterToken(key) == IF TruthyText(key) THEN "auth" ELSE "askKey"

\* The state of main when it reaches its first await, for an environment in
\* which each of GITHUB_TOKEN and OPENAI_API_KEY is absent, empty or set.
Init ==
    /\ githubToken \in EnvValues
    /\ openaiApiKey \in EnvValues
    /\ pc = IF TruthyText(githubToken) THEN AfterToken(openaiApiKey) ELSE "askToken"
    /\ exitCode = None
    /\ log = <<>>
    /\ page = 1
    /\ allRepos = <<>>
    /\ selectedRepo = None
    /\ hostReadme = None
    /\ missing = <<>>
    /\ hasReadme = FALSE
    /\ fieldsToGenerate = {}
    /\ context = None
    /\ cfgIdx = 1
    /\ generatedData = [description |-> None, website |-> None,
                        topics |-> None, readme |-> None]
    /\ existingReadme = None

\* A prompt that rejects (the user interrupts it) throws out of main.
PromptRejected(op, arg) ==
    /\ log' = Append(log, L(op, "rejected", arg))
    /\ MainCatch

\* githubToken = await password({ message: "Enter your GitHub Personal Access Token:" })
AskToken ==
    /\ pc = "askToken"
    /\ \/ /\ log' = Append(log, L("prompt.password", "answered", "GITHUB_TOKEN"))
          /\ githubToken' = Some(Secret)
          /\ pc' = AfterToken(openaiApiKey)
          /\ UNCHANGED exitCode
       \/ /\ PromptRejected("prompt.password", "GITHUB_TOKEN")
          /\ UNCHANGED githubToken
    /\ UNCHANGED <<openaiApiKey, page, allRepos, selectedRepo, hostReadme, missing,
                   hasReadme, fieldsToGenerate, context, cfgIdx, generatedData,
                   existingReadme>>

\* openaiApiKey = await password({ message: "Enter your OpenAI API Key:" })
AskKey ==
    /\ pc = "askKey"
    /\ \/ /\ log' = Append(log, L("prompt.password", "answered", "OPENAI_API_KEY"))
          /\ openaiApiKey' = Some(Secret)
          /\ pc' = "auth"
          /\ UNCHANGED exitCode
       \/ /\ PromptRejected("prompt.password", "OPENAI_API_KEY")
          /\ UNCHANGED openaiApiKey
    /\ UNCHANGED <<githubToken, page, allRepos, selectedRepo, hostReadme, missing,
                   hasReadme, fieldsToGenerate, context, cfgIdx, generatedData,
                   existingReadme>>

\* catch (error) { console.error(...); process.exit(1); } of the identity check
AuthCatchGoesOn == pc' = "list" /\ UNCHANGED exitCode
AuthCatch == Exit(1)

\* octokit.rest.users.getAuthenticated() in its try/catch
GetAuthenticated ==
    /\ pc = "auth"
    /\ UNCHANGED <<githubToken, openaiApiKey>>
    /\ \E res \in {"ok", "error"} :
         /\ log' = Append(log, L("users.getAuthenticated", res, None))
         /\ IF res = "ok"
            THEN pc' = "list" /\ UNCHANGED exitCode
            ELSE AuthCatch
    /\ UNCHANGED <<page, allRepos, selectedRepo, hostReadme, missing, hasReadme,
                   fieldsToGenerate, context, cfgIdx, generatedData,
                   existingReadme>>

\* What a page request is logged with: the page asked for and the repositories
\* the platform returned.
PageCall(p, repos) == [page |-> p, data |-> repos]

\* allRepos = allRepos.concat(repos)
ConcatInFront(list, repos) == repos \o list
Concat(list, repos) == list \o repos

\* One iteration of the while (true) loop, and what follows the break.
\* The platform answers a page request with an error, an empty page or a
\* non-empty page (the latter only for the first MaxPages pages).
ListPage(shapes) ==
    /\ pc = "list"
    /\ UNCHANGED <<githubToken, openaiApiKey>>
    /\ \/ /\ log' = Append(log, L("repos.listForAuthenticatedUser", "error",
                                  PageCall(page, <<>>)))
          /\ MainCatch
          /\ UNCHANGED <<page, allRepos>>
       \/ /\ log' = Append(log, L("repos.listForAuthenticatedUser", "empty",
                                  PageCall(page, <<>>)))
          /\ IF Len(allRepos) = 0
             THEN Exit(0)
             ELSE pc' = "select" /\ UNCHANGED exitCode
          /\ UNCHANGED <<page, allRepos>>
       \/ /\ page <= MaxPages
          /\ \E shape \in shapes :
               /\ log' = Append(log, L("repos.listForAuthenticatedUser", "repos",
                                       PageCall(page, PageOf(page, shape))))
               /\ allRepos' = Concat(allRepos, PageOf(page, shape))
               /\ page' = page + 1
          /\ UNCHANGED <<pc, exitCode>>
    /\ UNCHANGED <<selectedRepo, hostReadme, missing, hasReadme,
                   fieldsToGenerate, context, cfgIdx, generatedData,
                   existingReadme>>

\* The summary the list endpoint returned for a repository.
Summary(r) ==
    [name |-> r.name, description |-> r.description, homepage |-> r.homepage,
     topics |-> r.topics, language |-> r.language, private |-> r.private,
     default_branch |-> r.default_branch]

\* search({...}): the user picks one of the listed repositories.
SearchSelect ==
    /\ pc = "select"
    /\ UNCHANGED <<githubToken, openaiApiKey>>
    /\ \/ \E i \in 1..Len(allRepos) :
            /\ selectedRepo' = Some(Summary(allRepos[i]))
            /\ hostReadme' = allRepos[i].hostReadme
            /\ log' = Append(log, L("prompt.search", "selected", allRepos[i].name))
            /\ pc' = "gap"
            /\ UNCHANGED exitCode
       \/ /\ PromptRejected("prompt.search", None)
          /\ UNCHANGED <<selectedRepo, hostReadme>>
    /\ UNCHANGED <<page, allRepos, missing, hasReadme,
                   fieldsToGenerate, context, cfgIdx, generatedData,
                   existingReadme>>

----------------------------------------------------------------------------
(* main: what is missing *)

\* !value || value.trim() === ""
BlankText(o) == ~IsSome(o) \/ Val(o) = <<>> \/ Trim(Val(o)) = <<>>

\* !selectedRepo.topics || selectedRepo.topics.length === 0
NoTopics(o) == ~IsSome(o) \/ Len(Val(o)) = 0

MissingMetadata(repo) ==
    (IF BlankText(repo.description) THEN <<"description">> ELSE <<>>)
    \o (IF BlankText(repo.homepage) THEN <<"website">> ELSE <<>>)
    \o (IF NoTopics(repo.topics) THEN <<"topics">> ELSE <<>>)

\* What repos.getReadme can answer: the README, not found (404), or some
\* other failure (network, permission, rate limit).
GetReadmeResults(readme) ==
    IF IsSome(readme) THEN {"ok", "error"} ELSE {"404", "error"}

\* catch (error) { if (error.status === 404) missing.push("README.md") }
ReadmeMissingOnAnyFailure(res) == res # "ok"
ReadmeMissingOn(res) == res = "404"

\* The three metadata tests and the README existence check.
GapDetect ==
    /\ pc = "gap"
    /\ UNCHANGED <<githubToken, openaiApiKey>>
    /\ \E res \in GetReadmeResults(hostReadme) :
         /\ log' = Append(log, L("repos.getReadme", res, None))
         /\ hasReadme' = (res = "ok")
         /\ missing' = MissingMetadata(Val(selectedRepo))
                         \o (IF ReadmeMissingOn(res) THEN <<"README.md">> ELSE <<>>)
    /\ pc' = "missing"
    /\ UNCHANGED <<exitCode, page, allRepos, selectedRepo, hostReadme,
                   fieldsToGenerate, context, cfgIdx, generatedData,
                   existingReadme>>

InSeq(x, s) == \E i \in 1..Len(s) : s[i] = x

\* if (missing.length === 0) { confirm(...) ... } else { console.log(...) }
MissingBranch ==
    /\ pc = "missing"
    /\ UNCHANGED <<githubToken, openaiApiKey>>
    /\ IF Len(missing) = 0
       THEN \/ \E ans \in {"yes", "no"} :
                 /\ log' = Append(log, L("prompt.confirm.regenerate", ans, None))
                 /\ IF ans = "no"
                    THEN Exit(0)
                    ELSE pc' = "checkbox" /\ UNCHANGED exitCode
            \/ PromptRejected("prompt.confirm.regenerate", None)
       ELSE pc' = "checkbox" /\ UNCHANGED <<log, exitCode>>
    /\ UNCHANGED <<page, allRepos, selectedRepo, hostReadme, missing, hasReadme,
                   fieldsToGenerate, context, cfgIdx, generatedData,
                   existingReadme>>

Fields == {"description", "website", "topics", "readme"}

\* checked: missing.includes(...) of the four choices
PreselectedByValue(m) == {f \in Fields : InSeq(f, m)}
Preselected(m) ==
    {f \in Fields : InSeq(IF f = "readme" THEN "README.md" ELSE f, m)}

\* checkbox({...}) and the empty-selection exit
Checkbox ==
    /\ pc = "checkbox"
    /\ UNCHANGED <<githubToken, openaiApiKey>>
    /\ \/ \E picked \in SUBSET Fields :
            /\ fieldsToGenerate' = picked
            /\ log' = Append(log, L("prompt.checkbox", "answered",
                                    [checked |-> Preselected(missing), picked |-> picked]))
            /\ IF picked = {}
               THEN Exit(0)
               ELSE pc' = "ctxTree" /\ UNCHANGED exitCode
       \/ /\ PromptRejected("prompt.checkbox",
                            [checked |-> Preselected(missing), picked |-> {}])
          /\ UNCHANGED fieldsToGenerate
    /\ UNCHANGED <<page, allRepos, selectedRepo, hostReadme, missing, hasReadme,
                   context, cfgIdx, generatedData, existingReadme>>

----------------------------------------------------------------------------
(* getRepositoryContext *)

MaxFiles == 100

configFiles ==
    <<"Cargo.toml", "pyproject.toml", "setup.py", "go.mod", "pom.xml",
      "build.gradle">>

OrElse(o, default) == IF IsSome(o) /\ Val(o) # <<>> THEN Val(o) ELSE default

\* const context = {...}: the record seeded from the repository summary.
\* configFile is not a property of the seeded record.
SeedContext(repo) ==
    [name |-> repo.name,
     description |-> OrElse(repo.description, <<>>),
     language |-> OrElse(repo.language, <<"U", "n", "k", "n", "o", "w", "n">>),
     topics |-> IF IsSome(repo.topics) THEN Val(repo.topics) ELSE <<>>,
     isPrivate |-> repo.private,
     defaultBranch |-> repo.default_branch,
     files |-> <<>>,
     packageJson |-> None,
     configFile |-> None]

IsBlob(item) == item.type = "blob"

\* tree.tree.filter(blob).map(path).slice(0, 100)
FilesOfTree(tree) ==
    LET blobs == SelectSeq(tree, IsBlob)
    IN Slice0([i \in 1..Len(blobs) |-> blobs[i].path], MaxFiles)

\* } catch (error) { console.log(warning) } return context: the outer catch
\* of getRepositoryContext returns to the caller.
TreeCatchRethrows == MainCatch
TreeCatch == pc' = "genDescription" /\ UNCHANGED exitCode

\* The seeding and git.getTree.  A failing tree fetch leaves the outer try:
\* the catch prints the warning and the function returns the seeded record.
GetTree(trees) ==
    /\ pc = "ctxTree"
    /\ UNCHANGED <<githubToken, openaiApiKey>>
    /\ \/ /\ log' = Append(log, L("git.getTree", "error", None))
          /\ context' = Some(SeedContext(Val(selectedRepo)))
          /\ TreeCatch
       \/ \E tree \in trees :
            /\ log' = Append(log, L("git.getTree", "ok", Len(tree)))
            /\ context' = Some([SeedContext(Val(selectedRepo))
                                  EXCEPT !.files = FilesOfTree(tree)])
            /\ pc' = "ctxManifest"
            /\ UNCHANGED exitCode
    /\ cfgIdx' = 1
    /\ UNCHANGED <<page, allRepos, selectedRepo, hostReadme, missing,
                   hasReadme, fieldsToGenerate, generatedData, existingReadme>>

\* JSON.parse of the decoded manifest, for the one manifest text of the model.
ParsedManifest == [name |-> <<"p">>, description |-> <<"d">>]

\* repos.getContent("package.json") in its own try/catch:
\*   "notfound"  the call throws,
\*   "nocontent" the call returns data without content (a directory, an empty file),
\*   "badjson"   the content is not JSON, JSON.parse throws,
\*   "ok"        the content parses.
GetManifest(kinds) ==
    /\ pc = "ctxManifest"
    /\ UNCHANGED <<githubToken, openaiApiKey>>
    /\ \E kind \in kinds :
         /\ log' = Append(log, L("repos.getContent", kind, "package.json"))
         /\ context' = IF kind = "ok"
                       THEN Some([Val(context) EXCEPT !.packageJson = Some(ParsedManifest)])
                       ELSE context
    /\ pc' = "ctxConfig"
    /\ UNCHANGED <<exitCode, page, allRepos, selectedRepo, hostReadme, missing,
                   hasReadme, fieldsToGenerate, cfgIdx, generatedData,
                   existingReadme>>

\* Buffer.from(config.content, "base64").toString() of the one config text.
ConfigText == <<"c", "f", "g">>

\* if (config.content) { context.configFile = ...; break; }
ConfigAttachesIfExists(kind) == kind # "notfound"
ConfigAttaches(kind) == kind = "found"

\* One iteration of for (const configFile of configFiles):
\*   "notfound" the call throws,
\*   "empty"    the file exists and the call returns it with no content
\*              (an empty file, or a directory of that name),
\*   "found"    the call returns the file with content.
ProbeConfig(kinds) ==
    /\ pc = "ctxConfig"
    /\ UNCHANGED <<githubToken, openaiApiKey>>
    /\ cfgIdx <= Len(configFiles)
    /\ \E kind \in kinds :
         /\ log' = Append(log, L("repos.getContent", kind, configFiles[cfgIdx]))
         /\ IF ConfigAttaches(kind)
            THEN /\ context' = Some([Val(context) EXCEPT !.configFile =
                        Some([name |-> configFiles[cfgIdx], content |-> ConfigText])])
                 /\ pc' = "genDescription"
                 /\ UNCHANGED cfgIdx
            ELSE /\ UNCHANGED context
                 /\ cfgIdx' = cfgIdx + 1
                 /\ pc' = IF cfgIdx = Len(configFiles) THEN "genDescription" ELSE pc
    /\ UNCHANGED <<exitCode, page, allRepos, selectedRepo, hostReadme, missing,
                   hasReadme, fieldsToGenerate, generatedData, existingReadme>>

----------------------------------------------------------------------------
(* main: generation *)

\* fieldsToGenerate.includes(field)
SelectedAlways(field) == TRUE
Selected(field) == field \in fieldsToGenerate

\* One generator call of main.  A failing call rejects main(), which the
\* top-level catch turns into exit code 1.
Generate(at, field, op, texts, next) ==
    /\ pc = at
    /\ UNCHANGED <<githubToken, openaiApiKey>>
    /\ IF ~Selected(field)
       THEN pc' = next /\ UNCHANGED <<log, generatedData, exitCode>>
       ELSE \/ /\ log' = Append(log, L(op, "error", None))
               /\ MainCatch
               /\ UNCHANGED generatedData
            \/ \E content \in texts :
                 /\ log' = Append(log, L(op, "ok", content))
                 /\ generatedData' =
                      [generatedData EXCEPT ![field] = Some(
                          CASE field = "description" -> DescriptionOfText(content)
                            [] field = "website" -> WebsiteOfText(content)
                            [] field = "topics" -> TopicsOfText(content)
                            [] field = "readme" -> ReadmeOfText(content))]
                 /\ pc' = next
                 /\ UNCHANGED exitCode
    /\ UNCHANGED <<page, allRepos, selectedRepo, hostReadme, missing, hasReadme,
                   fieldsToGenerate, context, cfgIdx, existingReadme>>

GenDescription(texts) ==
    Generate("genDescription", "description", "openai.description", texts, "genWebsite")

GenWebsite(texts) ==
    Generate("genWebsite", "website", "openai.website", texts, "genTopics")

GenTopics(texts) ==
    Generate("genTopics", "topics", "openai.topics", texts, "genReadme")

GenReadme(texts) ==
    Generate("genReadme", "readme", "openai.readme", texts, "confirm")

----------------------------------------------------------------------------
(* main: confirmation and the apply step *)

\* if (!applyChanges) { ...; process.exit(0); }
DeclinedNever(ans) == FALSE
Declined(ans) == ans = "no"

\* The summary print-out and confirm("Apply these changes to the repository?")
ConfirmApply ==
    /\ pc = "confirm"
    /\ UNCHANGED <<githubToken, openaiApiKey>>
    /\ \/ \E ans \in {"yes", "no"} :
            /\ log' = Append(log, L("prompt.confirm.apply", ans, None))
            /\ IF Declined(ans)
               THEN Exit(0)
               ELSE pc' = "applyUpdate" /\ UNCHANGED exitCode
       \/ PromptRejected("prompt.confirm.apply", None)
    /\ UNCHANGED <<page, allRepos, selectedRepo, hostReadme, missing, hasReadme,
                   fieldsToGenerate, context, cfgIdx, generatedData,
                   existingReadme>>

\* if (generatedData.topics): an array is truthy when it is present.
TruthyList(o) == IsSome(o)

\* catch (error) { ...; process.exit(1); } of the apply step
ApplyCatchReturns == Return
ApplyCatchGoesOn == pc' = "applyReadme" /\ UNCHANGED exitCode
ApplyCatch == Exit(1)

\* if (generatedData.description || generatedData.website) { repos.update(...) }
ApplyUpdate ==
    /\ pc = "applyUpdate"
    /\ UNCHANGED <<githubToken, openaiApiKey>>
    /\ IF TruthyText(generatedData.description) \/ TruthyText(generatedData.website)
       THEN \E res \in {"ok", "error"} :
              /\ log' = Append(log, L("repos.update", res,
                    [description |-> IF TruthyText(generatedData.description)
                                     THEN generatedData.description ELSE None,
                     homepage |-> IF TruthyText(generatedData.website)
                                  THEN generatedData.website ELSE None]))
              /\ IF res = "ok"
                 THEN pc' = "applyTopics" /\ UNCHANGED exitCode
                 ELSE ApplyCatch
       ELSE pc' = "applyTopics" /\ UNCHANGED <<log, exitCode>>
    /\ UNCHANGED <<page, allRepos, selectedRepo, hostReadme, missing, hasReadme,
                   fieldsToGenerate, context, cfgIdx, generatedData,
                   existingReadme>>

\* if (generatedData.topics) { repos.replaceAllTopics(...) }
ApplyTopics ==
    /\ pc = "applyTopics"
    /\ UNCHANGED <<githubToken, openaiApiKey>>
    /\ IF TruthyList(generatedData.topics)
       THEN \E res \in {"ok", "error"} :
              /\ log' = Append(log, L("repos.replaceAllTopics", res,
                                      Val(generatedData.topics)))
              /\ IF res = "ok"
                 THEN pc' = "applyReadme" /\ UNCHANGED exitCode
                 ELSE ApplyCatch
       ELSE pc' = "applyReadme" /\ UNCHANGED <<log, exitCode>>
    /\ UNCHANGED <<page, allRepos, selectedRepo, hostReadme, missing, hasReadme,
                   fieldsToGenerate, context, cfgIdx, generatedData,
                   existingReadme>>

\* getReadme(...).catch(() => ({ data: null })): the README's data when the
\* call succeeds, null on any failure.
RecheckedReadmeIgnored(res, readme) == None
RecheckedReadme(res, readme) == IF res = "ok" THEN readme ELSE None

\* if (generatedData.readme) { the existence re-check }; without a README to
\* write, the success banner is printed and main returns.
ApplyReadmeCheck ==
    /\ pc = "applyReadme"
    /\ UNCHANGED <<githubToken, openaiApiKey>>
    /\ IF TruthyText(generatedData.readme)
       THEN \E res \in GetReadmeResults(hostReadme) :
              /\ log' = Append(log, L("repos.getReadme", res, None))
              /\ existingReadme' = RecheckedReadme(res, hostReadme)
              /\ pc' = "applyReadmeWrite"
              /\ UNCHANGED exitCode
       ELSE Return /\ UNCHANGED <<log, existingReadme>>
    /\ UNCHANGED <<page, allRepos, selectedRepo, hostReadme, missing, hasReadme,
                   fieldsToGenerate, context, cfgIdx, generatedData>>

\* The contents endpoint overwrites a file only when given its current hash.
WriteResults(sha) ==
    IF IsSome(hostReadme) /\ sha # hostReadme THEN {"error"} ELSE {"ok", "error"}

\* sha: existingReadme.sha in the update branch, no sha in the create branch
ShaOfWrite == existingReadme

\* Buffer.from(generatedData.readme).toString("base64")
Base64(text) == <<"base64">> \o text

\* createOrUpdateFileContents in the update or the create branch.  A failure is
\* caught by the inner catch, which reports it; either way the success banner
\* follows and main returns.
ApplyReadmeWrite ==
    /\ pc = "applyReadmeWrite"
    /\ UNCHANGED <<githubToken, openaiApiKey>>
    /\ \E res \in WriteResults(ShaOfWrite) :
         /\ log' = Append(log, L("repos.createOrUpdateFileContents", res,
                [sha |-> ShaOfWrite,
                 content |-> Base64(Val(generatedData.readme)),
                 prior |-> hostReadme]))
         /\ hostReadme' = IF res = "ok" THEN Some("sha2") ELSE hostReadme
    /\ Return
    /\ UNCHANGED <<page, allRepos, selectedRepo, missing, hasReadme,
                   fieldsToGenerate, context, cfgIdx, generatedData,
                   existingReadme>>

----------------------------------------------------------------------------
(* The program *)

\* Inputs of the whole-program specification.  Every non-empty page holds a
\* repository of each kind; SpecList explores the other pages.
PageShapes == {<<"bare", "full">>}
Trees == {<<[type |-> "blob", path |-> 1], [type |-> "tree", path |-> 2]>>}
ManifestKinds == {"notfound", "ok"}
ConfigKinds == {"notfound", "found"}
DescriptionTexts == {<<" ">>, <<"D", " ">>}
WebsiteTexts == {<<>>, <<"u">>}
TopicTexts == {<<>>, <<"a", ",", " ", "B", " ", "c">>}
ReadmeTexts == {<<"\n">>, <<"#", "R">>}

Next ==
    \/ AskToken
    \/ AskKey
    \/ GetAuthenticated
    \/ ListPage(PageShapes)
    \/ SearchSelect
    \/ GapDetect
    \/ MissingBranch
    \/ Checkbox
    \/ GetTree(Trees)
    \/ GetManifest(ManifestKinds)
    \/ ProbeConfig(ConfigKinds)
    \/ GenDescription(DescriptionTexts)
    \/ GenWebsite(WebsiteTexts)
    \/ GenTopics(TopicTexts)
    \/ GenReadme(ReadmeTexts)
    \/ ConfirmApply
    \/ ApplyUpdate
    \/ ApplyTopics
    \/ ApplyReadmeCheck
    \/ ApplyReadmeWrite

Spec == Init /\ [][Next]_vars

----------------------------------------------------------------------------
(* Properties of a run of main (specification Spec) *)

WriteOps ==
    {"repos.update", "repos.replaceAllTopics", "repos.createOrUpdateFileContents"}

GenOps == {"openai.description", "openai.website", "openai.topics", "openai.readme"}

FieldOfGenOp(op) ==
    CASE op = "openai.description" -> "description"
      [] op = "openai.website" -> "website"
      [] op = "openai.topics" -> "topics"
      [] op = "openai.readme" -> "readme"

Called(op, res) == \E i \in DOMAIN log : log[i].op = op /\ log[i].res = res

CallsOf(op) == {i \in DOMAIN log : log[i].op = op}

CallCount(op) == Cardinality({i \in DOMAIN log : log[i].op = op})

\* C1: no write call to the hosting platform is logged unless the "Apply these
\* changes" prompt was answered yes earlier in the run; once the prompt is
\* answered no, the process has exited with code 0 and nothing follows the
\* answer, so no write call is ever issued.
C1_WritesOnlyAfterYes ==
    /\ \A i \in DOMAIN log :
         log[i].op \in WriteOps =>
           \E j \in 1..(i - 1) :
             log[j].op = "prompt.confirm.apply" /\ log[j].res = "yes"
    /\ \A j \in DOMAIN log :
         (log[j].op = "prompt.confirm.apply" /\ log[j].res = "no") =>
           /\ j = Len(log)
           /\ pc = "exited"
           /\ exitCode = Some(0)
           /\ \A i \in DOMAIN log : log[i].op \notin WriteOps

\* A confirmed run that issued all three write calls.
C1_Witness ==
    /\ Called("prompt.confirm.apply", "yes")
    /\ \A op \in WriteOps : Called(op, "ok")

\* C2: when a field generator fails, the failure is the last interaction of
\* the run: no later generator call, no confirmation prompt, no write call
\* for any field, and the process has exited with code 1.
C2_GeneratorFailureAborts ==
    \A i \in DOMAIN log :
      (log[i].op \in GenOps /\ log[i].res = "error") =>
        /\ i = Len(log)
        /\ pc = "exited"
        /\ exitCode = Some(1)
        /\ \A j \in DOMAIN log :
             log[j].op \notin WriteOps /\ log[j].op # "prompt.confirm.apply"

\* The description was generated, then the topics generator failed.
C2_Witness ==
    /\ Called("openai.description", "ok")
    /\ Called("openai.topics", "error")
    /\ IsSome(generatedData.description)

\* C3: a field that was not selected in the checkbox is never generated and
\* never written: a generator is called only for a selected field, the update
\* call carries a description only if description was selected and a
\* homepage only if website was selected, replace-all-topics is called only
\* if topics was selected and the README write only if readme was selected.
C3_UnselectedUntouched ==
    /\ \A f \in Fields : IsSome(generatedData[f]) => f \in fieldsToGenerate
    /\ \A i \in DOMAIN log :
         /\ log[i].op \in GenOps => FieldOfGenOp(log[i].op) \in fieldsToGenerate
         /\ log[i].op = "repos.update" =>
              /\ IsSome(log[i].arg.description) => "description" \in fieldsToGenerate
              /\ IsSome(log[i].arg.homepage) => "website" \in fieldsToGenerate
         /\ log[i].op = "repos.replaceAllTopics" => "topics" \in fieldsToGenerate
         /\ log[i].op = "repos.createOrUpdateFileContents" =>
              "readme" \in fieldsToGenerate

\* Website and readme alone were selected, generated and written.
C3_Witness ==
    /\ pc = "done"
    /\ fieldsToGenerate = {"website", "readme"}
    /\ Called("repos.update", "ok")
    /\ Called("repos.createOrUpdateFileContents", "ok")

\* The failures that end the run: the identity check, a repository-list
\* request, a generator call, the update call, the replace-all-topics call.
FatalOps ==
    {"users.getAuthenticated", "repos.listForAuthenticatedUser",
     "repos.update", "repos.replaceAllTopics"} \cup GenOps

\* A fatal error: one of these calls failed, or the user interrupted a prompt.
FatalCall(e) == (e.op \in FatalOps /\ e.res = "error") \/ e.res = "rejected"

ReadmeWriteFailed(e) ==
    e.op = "repos.createOrUpdateFileContents" /\ e.res = "error"

\* C4 as stated: the process ends with code 1 exactly when a fatal error
\* occurred, a failure of the README create/update call counted among the
\* fatal errors, and with code 0 otherwise.
C4_AsStated ==
    IsSome(exitCode) =>
      IF \E i \in DOMAIN log : FatalCall(log[i]) \/ ReadmeWriteFailed(log[i])
      THEN exitCode = Some(1)
      ELSE exitCode = Some(0)

\* C4 (amended): the process ends with code 1 exactly when the identity
\* check, a repository-list request, a generator call, the update call or
\* the replace-all-topics call failed or a prompt was interrupted, and it
\* ends at that failure; it ends
\* with code 0 on normal or cancelled completion, and a failure of the
\* README create/update call is caught: the run completes with code 0.
C4_ExitCodes ==
    /\ exitCode \in {None, Some(0), Some(1)}
    /\ IsSome(exitCode) <=> pc \in {"done", "exited"}
    /\ exitCode = Some(1) <=> \E i \in DOMAIN log : FatalCall(log[i])
    /\ \A i \in DOMAIN log : FatalCall(log[i]) => i = Len(log)
    /\ \A i \in DOMAIN log :
         ReadmeWriteFailed(log[i]) => pc = "done" /\ exitCode = Some(0)

\* The README write failed after the update call succeeded.
C4_Witness ==
    /\ Called("repos.update", "ok")
    /\ Called("repos.createOrUpdateFileContents", "error")
    /\ exitCode = Some(0)

WriteRank(op) ==
    CASE op = "repos.update" -> 1
      [] op = "repos.replaceAllTopics" -> 2
      [] op = "repos.createOrUpdateFileContents" -> 3

\* C5: the write calls of a run are issued in the order update-attributes,
\* replace-all-topics, README write, each at most once; a failed update or
\* replace-all-topics call is the last interaction of the run (no later
\* write and no compensating call for those that succeeded) and the process
\* has exited with code 1.
C5_ApplyOrderAndHalt ==
    /\ \A i, j \in DOMAIN log :
         (i < j /\ log[i].op \in WriteOps /\ log[j].op \in WriteOps) =>
           WriteRank(log[i].op) < WriteRank(log[j].op)
    /\ \A i \in DOMAIN log :
         (log[i].op \in {"repos.update", "repos.replaceAllTopics"}
            /\ log[i].res = "error") =>
           /\ i = Len(log)
           /\ pc = "exited"
           /\ exitCode = Some(1)

\* The update succeeded, replace-all-topics failed, a README was waiting.
C5_Witness ==
    /\ Called("repos.update", "ok")
    /\ Called("repos.replaceAllTopics", "error")
    /\ TruthyText(generatedData.readme)
    /\ CallCount("repos.createOrUpdateFileContents") = 0

\* C7 as stated: the README write carries no hash when no README existed
\* before it, and carries the README's prior hash when one existed.
C7_AsStated ==
    \A i \in DOMAIN log :
      log[i].op = "repos.createOrUpdateFileContents" =>
        log[i].arg.sha = log[i].arg.prior

\* C7 (amended): applying a generated README issues exactly one write call,
\* directly after an existence re-check made after the confirmation; the
\* call carries the hash the re-check returned when the re-check succeeded,
\* and no hash when the re-check failed, with not-found or with any other
\* error, also when a README exists; with no README before it the call
\* carries no hash.
C7_ReadmeCreateOrUpdate ==
    /\ CallCount("repos.createOrUpdateFileContents") <= 1
    /\ (pc = "done" /\ TruthyText(generatedData.readme)) =>
         CallCount("repos.createOrUpdateFileContents") = 1
    /\ \A i \in DOMAIN log :
         log[i].op = "repos.createOrUpdateFileContents" =>
           /\ i > 1
           /\ log[i - 1].op = "repos.getReadme"
           /\ \E j \in 1..(i - 2) : log[j].op = "prompt.confirm.apply"
           /\ log[i - 1].res = "ok" =>
                IsSome(log[i].arg.prior) /\ log[i].arg.sha = log[i].arg.prior
           /\ log[i - 1].res # "ok" => log[i].arg.sha = None
           /\ ~IsSome(log[i].arg.prior) => log[i].arg.sha = None

\* The gap detection could not confirm the README (its check failed), the
\* re-check found it, and the update carrying its hash succeeded.
C7_Witness ==
    /\ ~hasReadme
    /\ \E i \in DOMAIN log :
         /\ log[i].op = "repos.createOrUpdateFileContents"
         /\ log[i].res = "ok"
         /\ log[i].arg.sha = Some("sha1")
         /\ log[i].arg.prior = Some("sha1")

----------------------------------------------------------------------------
(* The gap detection on its own (specification SpecGap): main right after   *)
(* the search prompt returned the only repository of a one-page list.       *)

GapTexts ==
    {None, Some(<<>>), Some(<<" ">>), Some(<<"\t", " ">>), Some(<<"X">>),
     Some(<<" ", "X", " ">>)}

GapTopics == {None, Some(<<>>), Some(<< <<"a">> >>)}

GapReadmes == {None, Some("sha1")}

GapRepos ==
    {MakeRepo(1, d, h, t, None, r) :
       d \in GapTexts, h \in GapTexts, t \in GapTopics, r \in GapReadmes}

\* The state in which one of the given repositories has just been selected.
InitAt(repos) ==
    \E r \in repos :
      /\ pc = "gap"
      /\ exitCode = None
      /\ githubToken = Some(Secret)
      /\ openaiApiKey = Some(Secret)
      /\ log = <<L("users.getAuthenticated", "ok", None),
                 L("repos.listForAuthenticatedUser", "repos", PageCall(1, <<r>>)),
                 L("repos.listForAuthenticatedUser", "empty", PageCall(2, <<>>)),
                 L("prompt.search", "selected", r.name)>>
      /\ page = 2
      /\ allRepos = <<r>>
      /\ selectedRepo = Some(Summary(r))
      /\ hostReadme = r.hostReadme
      /\ missing = <<>>
      /\ hasReadme = FALSE
      /\ fieldsToGenerate = {}
      /\ context = None
      /\ cfgIdx = 1
      /\ generatedData = [description |-> None, website |-> None,
                          topics |-> None, readme |-> None]
      /\ existingReadme = None

InitGap == InitAt(GapRepos)

NextGap ==
    \/ GapDetect
    \/ MissingBranch
    \/ Checkbox

SpecGap == InitGap /\ [][NextGap]_vars

AllSpace(text) == \A i \in DOMAIN text : text[i] \in WhiteSpace

\* The result of the first README existence check of the run.
GapCheckRes ==
    log[CHOOSE i \in DOMAIN log :
          /\ log[i].op = "repos.getReadme"
          /\ \A j \in 1..(i - 1) : log[j].op # "repos.getReadme"].res

\* C6: after the gap detection, MissingFieldSet holds 'description' iff the
\* description is missing or has only white space, 'website' iff the homepage
\* is missing or has only white space, 'topics' iff the topic list is missing
\* or empty, 'README.md' iff the existence check failed with 404, and nothing
\* else; whatever the check answered, the run goes on to the next step.
C6_MissingFieldSet ==
    pc \in {"missing", "checkbox", "ctxTree", "exited"} =>
      LET repo == Val(selectedRepo) IN
      /\ InSeq("description", missing) <=>
           (~IsSome(repo.description) \/ AllSpace(Val(repo.description)))
      /\ InSeq("website", missing) <=>
           (~IsSome(repo.homepage) \/ AllSpace(Val(repo.homepage)))
      /\ InSeq("topics", missing) <=>
           (~IsSome(repo.topics) \/ Val(repo.topics) = <<>>)
      /\ InSeq("README.md", missing) <=> GapCheckRes = "404"
      /\ \A i \in DOMAIN missing :
           /\ missing[i] \in {"description", "website", "topics", "README.md"}
           /\ \A j \in DOMAIN missing : missing[j] = missing[i] => j = i
      /\ pc = "missing" => exitCode = None

\* A repository whose description is white space only, whose README check
\* failed with an error other than 404.
C6_Witness ==
    /\ pc = "missing"
    /\ GapCheckRes = "error"
    /\ Val(selectedRepo).description = Some(<<"\t", " ">>)
    /\ missing = <<"description">>

----------------------------------------------------------------------------
(* getRepositoryContext on its own (specification SpecCtx) *)

EmptyTextRepo(name) ==
    MakeRepo(name, Some(<<>>), Some(<<>>), Some(<<>>), Some(<<>>), None)

CtxRepos == {BareRepo(1), FullRepo(1), EmptyTextRepo(1)}

CtxTrees ==
    {<<>>,
     <<[type |-> "blob", path |-> 1], [type |-> "tree", path |-> 2],
       [type |-> "blob", path |-> 3]>>,
     [i \in 1..(MaxFiles + 1) |-> [type |-> "blob", path |-> i]]}

AllManifestKinds == {"notfound", "nocontent", "badjson", "ok"}

AllConfigKinds == {"notfound", "empty", "found"}

InitCtx ==
    \E r \in CtxRepos :
      /\ pc = "ctxTree"
      /\ exitCode = None
      /\ githubToken = Some(Secret)
      /\ openaiApiKey = Some(Secret)
      /\ log = <<>>
      /\ page = 1
      /\ allRepos = <<>>
      /\ selectedRepo = Some(Summary(r))
      /\ hostReadme = r.hostReadme
      /\ missing = <<>>
      /\ hasReadme = FALSE
      /\ fieldsToGenerate = {}
      /\ context = None
      /\ cfgIdx = 1
      /\ generatedData = [description |-> None, website |-> None,
                          topics |-> None, readme |-> None]
      /\ existingReadme = None

NextCtx ==
    \/ GetTree(CtxTrees)
    \/ GetManifest(AllManifestKinds)
    \/ ProbeConfig(AllConfigKinds)

SpecCtx == InitCtx /\ [][NextCtx]_vars

\* The function has returned to its caller.
CtxReturned == pc = "genDescription"

\* The log positions of the config-file probes, in order.
ProbeAt ==
    {i \in DOMAIN log : log[i].op = "repos.getContent" /\ log[i].arg # "package.json"}

\* C8: getRepositoryContext never raises: whatever the tree fetch, the
\* manifest fetch and the config probes answer, the function is running or
\* has returned a record, and the process has not been ended.  When the tree
\* fetch throws, the function has returned with no manifest or config probe
\* attempted, and the record has the name, privacy flag and default branch of
\* the repository, its description (or ""), its language (or "Unknown"), its
\* topics (or none), an empty file list, no manifest and no config file.
C8_ContextNeverRaises ==
    /\ exitCode = None
    /\ pc \in {"ctxTree", "ctxManifest", "ctxConfig", "genDescription"}
    /\ CtxReturned => IsSome(context)
    /\ Called("git.getTree", "error") =>
         LET repo == Val(selectedRepo)
             c == Val(context)
         IN /\ CtxReturned
            /\ Len(log) = 1
            /\ CallCount("repos.getContent") = 0
            /\ c.name = repo.name
            /\ c.isPrivate = repo.private
            /\ c.defaultBranch = repo.default_branch
            /\ c.description =
                 (IF IsSome(repo.description) THEN Val(repo.description) ELSE <<>>)
            /\ c.language =
                 (IF IsSome(repo.language) /\ Len(Val(repo.language)) > 0
                  THEN Val(repo.language)
                  ELSE <<"U", "n", "k", "n", "o", "w", "n">>)
            /\ c.topics = (IF IsSome(repo.topics) THEN Val(repo.topics) ELSE <<>>)
            /\ c.files = <<>>
            /\ c.packageJson = None
            /\ c.configFile = None

\* The tree fetch threw for a repository with a description and topics.
C8_Witness ==
    /\ CtxReturned
    /\ Called("git.getTree", "error")
    /\ Val(context).description = <<"X">>
    /\ Val(context).topics = << <<"a">> >>

FileExists(res) == res \in {"empty", "found"}

\* C9 as stated: when the function has returned after a successful tree
\* fetch, the attached config file is the first probed file that exists in
\* the repository, that probe is the last one made, and no config file is
\* attached only if none of the probed files exists.
C9_AsStated ==
    (CtxReturned /\ Called("git.getTree", "ok")) =>
      IF \E i \in ProbeAt : FileExists(log[i].res)
      THEN LET first == CHOOSE i \in ProbeAt :
                          /\ FileExists(log[i].res)
                          /\ \A j \in ProbeAt : j < i => ~FileExists(log[j].res)
           IN /\ IsSome(Val(context).configFile)
              /\ Val(Val(context).configFile).name = log[first].arg
              /\ first = Len(log)
      ELSE Val(context).configFile = None

\* C9 (amended): the config files are probed in the order of the fixed
\* priority list; when the function has returned after a successful tree
\* fetch, the attached config file is the first probed file whose fetch
\* returned content, that probe is the last one made, and every file before
\* it was probed and skipped because it was not found or came back without
\* content; if no probe returned content, all six files were probed and no
\* config file is attached.  This holds for every outcome of the manifest
\* fetch.
C9_ConfigPriority ==
    /\ \A i \in ProbeAt :
         log[i].arg = configFiles[Cardinality({j \in ProbeAt : j <= i})]
    /\ (CtxReturned /\ Called("git.getTree", "ok")) =>
         IF \E i \in ProbeAt : log[i].res = "found"
         THEN LET hit == CHOOSE i \in ProbeAt : log[i].res = "found"
              IN /\ Val(context).configFile =
                      Some([name |-> log[hit].arg, content |-> ConfigText])
                 /\ hit = Len(log)
                 /\ \A j \in ProbeAt : j # hit => log[j].res # "found"
         ELSE /\ Val(context).configFile = None
              /\ Cardinality(ProbeAt) = Len(configFiles)

\* The manifest did not parse, Cargo.toml exists without content, and go.mod,
\* the first file with content, is attached.
C9_Witness ==
    /\ CtxReturned
    /\ Called("repos.getContent", "badjson")
    /\ \E i \in ProbeAt : log[i].arg = "Cargo.toml" /\ log[i].res = "empty"
    /\ IsSome(Val(context).configFile)
    /\ Val(Val(context).configFile).name = "go.mod"

----------------------------------------------------------------------------
(* generateTopics on its own (specification SpecTopics) *)

MaxShortPieces == 2
LongPieces == 12

Rep(c, n) == [i \in 1..n |-> c]

\* Pieces a completion may hold between its commas: empty, blank, padded and
\* mixed-case words, a run of white space inside a word, and words of 50 and
\* 51 characters, before and after normalisation.
TopicPieces ==
    {<<>>,
     <<" ">>,
     <<" ", "W", "e", "b", " ", "A", "p", "p", " ">>,
     <<"N", "\t", " ", "z", "Z">>,
     Rep("k", MaxTopicLen),
     Rep("k", MaxTopicLen + 1),
     Rep("k", MaxTopicLen - 2) \o <<" ", " ", "k">>,
     <<" ">> \o Rep("B", MaxTopicLen) \o <<"\n">>}

Letters ==
    <<"a", "b", "c", "d", "e", "f", "g", "h", "i", "j", "l", "m", "n", "o", "q">>

RECURSIVE JoinComma(_)
JoinComma(pieces) ==
    IF Len(pieces) = 0 THEN <<>>
    ELSE IF Len(pieces) = 1 THEN pieces[1]
    ELSE pieces[1] \o <<",">> \o JoinComma(Tail(pieces))

ShortPieceLists ==
    UNION {[1..n -> TopicPieces] : n \in 0..MaxShortPieces}

\* LongPieces one-letter topics, one of them replaced by a piece.
LongPieceLists ==
    {[i \in 1..LongPieces |-> IF i = k THEN p ELSE <<Letters[i]>>] :
       k \in 1..LongPieces, p \in TopicPieces}

AllTopicTexts == {JoinComma(pieces) : pieces \in ShortPieceLists \cup LongPieceLists}

InitTopics ==
    /\ pc = "genTopics"
    /\ exitCode = None
    /\ githubToken = Some(Secret)
    /\ openaiApiKey = Some(Secret)
    /\ log = <<>>
    /\ page = 1
    /\ allRepos = <<>>
    /\ selectedRepo = None
    /\ hostReadme = None
    /\ missing = <<>>
    /\ hasReadme = FALSE
    /\ fieldsToGenerate = {"topics"}
    /\ context = None
    /\ cfgIdx = 1
    /\ generatedData = [description |-> None, website |-> None,
                        topics |-> None, readme |-> None]
    /\ existingReadme = None

NextTopics == GenTopics(AllTopicTexts)

SpecTopics == InitTopics /\ [][NextTopics]_vars

\* The k-th smallest member of a set of numbers.
Kth(S, k) == CHOOSE a \in S : Cardinality({x \in S : x < a}) = k - 1

LowerPairs ==
    {<<"A", "a">>, <<"B", "b">>, <<"N", "n">>, <<"W", "w">>, <<"Z", "z">>}

ExpectedLower(c) ==
    IF \E p \in LowerPairs : p[1] = c
    THEN (CHOOSE p \in LowerPairs : p[1] = c)[2]
    ELSE c

\* The pieces of a text between its commas, by the positions of the commas.
ExpectedPieces(text) ==
    LET cuts == {0} \cup {i \in DOMAIN text : text[i] = ","} \cup {Len(text) + 1}
    IN [k \in 1..(Cardinality(cuts) - 1) |->
          SubSeq(text, Kth(cuts, k) + 1, Kth(cuts, k + 1) - 1)]

\* A piece without the white space around it, in lower case, every run of
\* white space inside it replaced by one hyphen.
ExpectedTopic(piece) ==
    LET solid == {i \in DOMAIN piece : piece[i] \notin WhiteSpace}
        kept == {i \in solid : TRUE} \cup
                {i \in DOMAIN piece :
                   /\ piece[i] \in WhiteSpace
                   /\ \E a \in solid : a < i
                   /\ \E b \in solid : b > i
                   /\ piece[i - 1] \notin WhiteSpace}
    IN [k \in 1..Cardinality(kept) |->
          LET c == piece[Kth(kept, k)]
          IN IF c \in WhiteSpace THEN "-" ELSE ExpectedLower(c)]

\* The first ten normalised pieces of 1 to 50 characters, in order.
ExpectedTopics(text) ==
    LET pieces == ExpectedPieces(text)
        ok == {k \in DOMAIN pieces :
                 /\ Len(ExpectedTopic(pieces[k])) > 0
                 /\ Len(ExpectedTopic(pieces[k])) <= 50}
        first == {k \in ok : Cardinality({x \in ok : x < k}) < 10}
    IN [n \in 1..Cardinality(first) |-> ExpectedTopic(pieces[Kth(first, n)])]

\* C10: for every completion text the topic generator received, the list it
\* returned has at most 10 elements, each non-empty, of at most 50
\* characters, without upper-case letters and without white space, and is
\* exactly the first 10 survivors, in order, of splitting the text on commas
\* and trimming, lower-casing and hyphenating each piece.
C10_TopicsPostProcessing ==
    \A i \in DOMAIN log :
      (log[i].op = "openai.topics" /\ log[i].res = "ok") =>
        LET out == Val(generatedData.topics) IN
        /\ Len(out) <= 10
        /\ \A k \in DOMAIN out :
             /\ Len(out[k]) > 0
             /\ Len(out[k]) <= 50
             /\ \A c \in DOMAIN out[k] :
                  out[k][c] \notin WhiteSpace /\ out[k][c] \notin UpperChars
        /\ out = ExpectedTopics(log[i].arg)

\* A completion of twelve pieces, one of the first ten dropped: ten topics
\* are returned, the last of them the eleventh piece, the twelfth cut off.
C10_Witness ==
    /\ pc = "genReadme"
    /\ IsSome(generatedData.topics)
    /\ Len(Val(generatedData.topics)) = 10
    /\ Val(generatedData.topics)[10] = <<Letters[11]>>
    /\ Len(SplitComma(log[Len(log)].arg)) = 12

----------------------------------------------------------------------------
(* The identity check (specification Spec) *)

PromptOps ==
    {"prompt.search", "prompt.confirm.regenerate", "prompt.checkbox",
     "prompt.confirm.apply"}

\* C11: when the identity check fails, it is the last interaction of the
\* run, preceded by nothing but the prompts for the secrets the environment
\* lacks: the process has exited with code 1, and no repository-list request,
\* no selection, confirmation or checkbox prompt, no generation call and no
\* write call was made.
C11_AuthFailureExits ==
    Called("users.getAuthenticated", "error") =>
      /\ pc = "exited"
      /\ exitCode = Some(1)
      /\ log[Len(log)].op = "users.getAuthenticated"
      /\ \A i \in 1..(Len(log) - 1) :
           log[i].op = "prompt.password" /\ log[i].res = "answered"
      /\ allRepos = <<>>
      /\ \A i \in DOMAIN log :
           /\ log[i].op # "repos.listForAuthenticatedUser"
           /\ log[i].op \notin PromptOps
           /\ log[i].op \notin GenOps
           /\ log[i].op \notin WriteOps

\* The identity check failed with the two secrets the user typed.
C11_Witness ==
    /\ Called("users.getAuthenticated", "error")
    /\ Len(log) = 3
    /\ exitCode = Some(1)

----------------------------------------------------------------------------
(* The repository-list loop alone, with pages of one or two repositories of
   either kind; the loop is a sequence of awaited requests, each of which
   returns, hence the weak fairness of ListPage (specification SpecList) *)

MaxPageLen == 2

ListKinds == {"bare", "full"}

ListShapes == UNION {[1..n -> ListKinds] : n \in 1..MaxPageLen}

NextList ==
    \/ AskToken
    \/ AskKey
    \/ GetAuthenticated
    \/ ListPage(ListShapes)
    \/ SearchSelect

SpecList == Init /\ [][NextList]_vars /\ WF_vars(ListPage(ListShapes))

ListOp == "repos.listForAuthenticatedUser"

\* The page requests of the run, in the order they were made.
ListCalls == SelectSeq(log, LAMBDA e : e.op = ListOp)

RECURSIVE PagesInOrder(_)
PagesInOrder(calls) ==
    IF calls = <<>> THEN <<>>
    ELSE PagesInOrder(SubSeq(calls, 1, Len(calls) - 1)) \o calls[Len(calls)].arg.data

C12_PagesInOrder ==
    LET calls == ListCalls
        n == Len(calls)
        auth == Cardinality(CallsOf("prompt.password")) + 1
    IN /\ \A k \in 1..n :
            /\ calls[k].arg.page = k
            /\ log[auth].op = "users.getAuthenticated"
            /\ log[auth + k] = calls[k]
            /\ k < n => calls[k].res = "repos"
            /\ (calls[k].res = "repos") = (calls[k].arg.data # <<>>)
       /\ allRepos = PagesInOrder(calls)
       /\ pc = "list" =>
            /\ page = n + 1
            /\ \A k \in 1..n : calls[k].res = "repos"
       /\ Called(ListOp, "empty") =>
            /\ pc # "list"
            /\ allRepos = <<>> =>
                 /\ pc = "exited"
                 /\ exitCode = Some(0)
                 /\ Len(log) = auth + n
                 /\ ~ Called("prompt.search", "selected")

\* C12: the list loop requests pages 1, 2, 3, ... one after the other, with
\* nothing in between, and no page follows an empty one; the in-memory list is
\* the concatenation of the returned pages in page order; an empty list ends
\* the run with exit code 0, the empty page being the last interaction (no
\* selection prompt, no further request); and the loop is always left.
C12_ListLoop == [] C12_PagesInOrder /\ (pc = "list" ~> pc # "list")

\* Two pages of different lengths were fetched, the third came back empty and
\* the loop was left with the three repositories in page order.
C12_Witness ==
    /\ pc = "select"
    /\ Len(ListCalls) = 3
    /\ Called(ListOp, "empty")
    /\ Len(allRepos) = 3
    /\ allRepos[1].name = 1
    /\ allRepos[3].name = PerPage + 1

----------------------------------------------------------------------------
(* The run from the selected repository on, for one repository of every
   combination of missing description, homepage, topics and README
   (specification SpecRegen) *)

RegenRepos ==
    {MakeRepo(1, d, h, t, None, r) :
       d \in {None, Some(<<"X">>)}, h \in {Some(<<" ">>), Some(<<"X">>)},
       t \in {Some(<<>>), Some(<< <<"a">> >>)}, r \in GapReadmes}

InitRegen == InitAt(RegenRepos)

NextRegen ==
    \/ GapDetect
    \/ MissingBranch
    \/ Checkbox
    \/ GetTree(Trees)
    \/ GetManifest(ManifestKinds)
    \/ ProbeConfig(ConfigKinds)
    \/ GenDescription(DescriptionTexts)
    \/ GenWebsite(WebsiteTexts)
    \/ GenTopics(TopicTexts)
    \/ GenReadme(ReadmeTexts)
    \/ ConfirmApply
    \/ ApplyUpdate
    \/ ApplyTopics
    \/ ApplyReadmeCheck
    \/ ApplyReadmeWrite

SpecRegen == InitRegen /\ [][NextRegen]_vars

\* MissingFieldSet, from the selected repository and the answer of the
\* README existence check, under the names of the checkbox values.
MissingFieldSet ==
    LET repo == Val(selectedRepo) IN
    {f \in Fields :
       \/ f = "description"
          /\ (~IsSome(repo.description) \/ AllSpace(Val(repo.description)))
       \/ f = "website"
          /\ (~IsSome(repo.homepage) \/ AllSpace(Val(repo.homepage)))
       \/ f = "topics"
          /\ (~IsSome(repo.topics) \/ Val(repo.topics) = <<>>)
       \/ f = "readme" /\ GapCheckRes = "404"}

RegenerateAsked == \E i \in DOMAIN log : log[i].op = "prompt.confirm.regenerate"

\* C13: once the gap detection is over, the 'regenerate anyway?' confirmation
\* has been shown iff MissingFieldSet is empty, and it comes before the
\* checkbox; a 'no' is the last interaction of the run, which exits with
\* code 0 (no checkbox, no context fetch, no generation, no write); otherwise
\* the checkbox comes next, preselects exactly MissingFieldSet, and accepts
\* every subset of the four fields as the selection.
C13_RegenerateThenCheckbox ==
    /\ pc \in {"gap", "missing"} => ~ RegenerateAsked
    /\ pc \notin {"gap", "missing"} => (RegenerateAsked <=> MissingFieldSet = {})
    /\ \A i \in DOMAIN log :
         /\ (log[i].op = "prompt.confirm.regenerate" /\ log[i].res = "no") =>
              /\ i = Len(log)
              /\ pc = "exited"
              /\ exitCode = Some(0)
              /\ fieldsToGenerate = {}
              /\ context = None
              /\ \A j \in DOMAIN log :
                   /\ log[j].op \notin {"prompt.checkbox", "git.getTree",
                                        "repos.getContent"}
                   /\ log[j].op \notin GenOps
                   /\ log[j].op \notin WriteOps
         /\ (log[i].op = "prompt.confirm.regenerate" /\ log[i].res = "yes") =>
              /\ log[i - 1].op = "repos.getReadme"
              /\ i < Len(log) => log[i + 1].op = "prompt.checkbox"
              /\ i = Len(log) => pc = "checkbox"
         /\ log[i].op = "prompt.checkbox" =>
              /\ log[i].arg.checked = MissingFieldSet
              /\ log[i].arg.picked \in SUBSET Fields
              /\ log[i].arg.picked = fieldsToGenerate
              /\ log[i - 1].op = IF MissingFieldSet = {}
                                 THEN "prompt.confirm.regenerate"
                                 ELSE "repos.getReadme"
    /\ pc = "checkbox" =>
         \A picked \in SUBSET Fields :
           ENABLED (Checkbox /\ fieldsToGenerate' = picked)

\* Nothing was missing, the user chose to regenerate, and selected the website
\* alone in a checkbox that preselected nothing.
C13_Witness ==
    /\ Called("prompt.confirm.regenerate", "yes")
    /\ \E i \in DOMAIN log :
         /\ log[i].op = "prompt.checkbox"
         /\ log[i].arg.checked = {}
         /\ log[i].arg.picked = {"website"}
    /\ pc = "ctxTree"

----------------------------------------------------------------------------
(* Every selected field is written (specification Spec) *)

\* C14: in a run that ended after the user confirmed and in which no call
\* failed, a selected description and a selected website are each carried by
\* the one update-attributes call, selected topics are replaced by exactly one
\* call, and a selected readme is created or updated by exactly one call.
\* The code tests the generated values for truthiness before writing them, so
\* this is violated when a generated text is empty after trimming.
C14_AsStated ==
    (/\ pc = "done"
     /\ Called("prompt.confirm.apply", "yes")
     /\ \A i \in DOMAIN log : log[i].res # "error") =>
      /\ "description" \in fieldsToGenerate =>
           /\ Cardinality(CallsOf("repos.update")) = 1
           /\ \A i \in CallsOf("repos.update") : IsSome(log[i].arg.description)
      /\ "website" \in fieldsToGenerate =>
           /\ Cardinality(CallsOf("repos.update")) = 1
           /\ \A i \in CallsOf("repos.update") : IsSome(log[i].arg.homepage)
      /\ "topics" \in fieldsToGenerate =>
           Cardinality(CallsOf("repos.replaceAllTopics")) = 1
      /\ "readme" \in fieldsToGenerate =>
           Cardinality(CallsOf("repos.createOrUpdateFileContents")) = 1

====
